---- MODULE Spec2Model ----
(***************************************************************************)
(* Position aggregation read-model of src/hooks/useV3Positions.ts.         *)
(*                                                                         *)
(* The hooks are re-run on every render pass.  A pass reads the latest     *)
(* cached state of every contract call, of the incentive fetch and of the  *)
(* deposited-token-id fetch, and derives its return value from them.  The  *)
(* model keeps the caches as state; every action changes one cache entry   *)
(* (a call resolves, a fetch completes) and then runs the render pass on   *)
(* the new caches, recording what the hooks return.                        *)
(*                                                                         *)
(* An optional JavaScript value is a sequence of length at most one:       *)
(* <<>> is undefined, <<v>> is the value v.                                *)
(***************************************************************************)
EXTENDS Integers, Sequences, FiniteSets, TLC

\* ------------------------------------------------------------------------
\* Bounds
\* ------------------------------------------------------------------------
MaxTokenIds == 2      \* longest tokenIds list handed to useV3PositionsFromTokenIds
MaxIncentives == 2    \* longest incentive list returned by useAllIncentives
MaxBalance == 2       \* largest balanceOf result
MaxDeposited == 1     \* longest list returned by useDepositedTokenIds

\* ------------------------------------------------------------------------
\* Values
\* ------------------------------------------------------------------------
None == <<>>
Some(v) == <<v>>

AddressZero == "0x0000000000000000000000000000000000000000"

TokenIdSet == {1, 12}
Account == "0xA11ce"
Staker == "0x57a4e"
TokenA == "0xAAA"
TokenB == "0xBBB"

\* The per-call state returned by the multicall hooks.
CallState(l, e, r) == [loading |-> l, error |-> e, result |-> r]
LOADING_CALL_STATE == CallState(TRUE, FALSE, None)
INVALID_CALL_STATE == CallState(FALSE, FALSE, None)
ERROR_CALL_STATE == CallState(FALSE, TRUE, None)
Resolved(r) == CallState(FALSE, FALSE, Some(r))

\* The struct returned by NonfungiblePositionManager.positions(tokenId).
PositionInfo(t0, t1, f, lo, hi) ==
  [nonce |-> 0, operator |-> AddressZero, token0 |-> t0, token1 |-> t1, fee |-> f,
   tickLower |-> lo, tickUpper |-> hi, liquidity |-> 7,
   feeGrowthInside0LastX128 |-> 3, feeGrowthInside1LastX128 |-> 4,
   tokensOwed0 |-> 5, tokensOwed1 |-> 6]

\* A Token of the sdk (an object with an address) and a bare address string;
\* toPoolKey accepts either.
Token(a) == [kind |-> "Token", address |-> a]
Str(a) == [kind |-> "string", address |-> a]

\* An Incentive: an opaque record (id) attached to a Pool.
Incentive(n, t0, t1, f) == [id |-> n, pool |-> [token0 |-> Token(t0), token1 |-> Token(t1), fee |-> f]]

\* ------------------------------------------------------------------------
\* Array helpers
\* ------------------------------------------------------------------------
Range(s) == {s[i] : i \in DOMAIN s}

\* calls.some(({ loading }) => loading), calls.some(({ error }) => error)
someLoading(calls) == \E i \in DOMAIN calls : calls[i].loading
someError(calls) == \E i \in DOMAIN calls : calls[i].error

\* ------------------------------------------------------------------------
\* useV3PositionsFromTokenIds
\* ------------------------------------------------------------------------
AddressOf(t) == t.address

toPoolKey_NoFee(p) ==
  AddressOf(p.token0) \o "-" \o AddressOf(p.token1)

toPoolKey(p) ==
  AddressOf(p.token0) \o "-" \o AddressOf(p.token1) \o "-" \o ToString(p.fee)

\* inputs: one argument tuple per token id, none when tokenIds is undefined
inputs(tokenIds) ==
  IF tokenIds # None THEN [i \in DOMAIN tokenIds[1] |-> <<tokenIds[1][i]>>] ELSE <<>>

\* useSingleContractMultipleData: the cached state of each requested call,
\* in the order of the requests.
useSingleContractMultipleData(cache, callInputs) ==
  [i \in DOMAIN callInputs |-> cache[callInputs[i]]]

loadingOf_IgnoresIncentives(incentivesLoading, states) ==
  \E i \in DOMAIN states : someLoading(states[i])

loadingOf(incentivesLoading, states) ==
  incentivesLoading \/ \E i \in DOMAIN states : someLoading(states[i])

errorOf(states) ==
  \E i \in DOMAIN states : someError(states[i])

\* incentives?.reduce(...) ?? {} : group the incentives by pool key, each
\* group in the order of the source list.
RECURSIVE reduceIncentives(_, _)
reduceIncentives(memo, list) ==
  IF list = <<>> THEN memo
  ELSE LET incentive == Head(list)
           key == toPoolKey(incentive.pool)
           old == IF key \in DOMAIN memo THEN memo[key] ELSE <<>>
           new == [k \in DOMAIN memo \cup {key} |->
                     IF k = key THEN Append(old, incentive) ELSE memo[k]]
       IN reduceIncentives(new, Tail(list))

EmptyObject == [k \in {} |-> <<>>]

incentivesByPoolKey(incentives) ==
  IF incentives # None THEN reduceIncentives(EmptyObject, incentives[1]) ELSE EmptyObject

\* if (!owner || !positionInfo) return null
incompleteOf_NeedsDeposit(owner, positionInfo, depositOwner) ==
  owner = None \/ positionInfo = None \/ depositOwner = None

incompleteOf(owner, positionInfo, depositOwner) ==
  owner = None \/ positionInfo = None

\* Boolean(depositOwner && depositOwner !== AddressZero)
depositedInStakerOf_AnyDeposit(depositOwner) ==
  depositOwner # None

depositedInStakerOf(depositOwner) ==
  depositOwner # None /\ depositOwner[1] # AddressZero

\* The body of tokenIds.map((tokenId, i) => ...): None is the null entry.
positionOf(tokenId, ownerCall, positionCall, depositCall, byPoolKey) ==
  LET owner == IF ownerCall.result # None THEN Some(ownerCall.result[1][1]) ELSE None
      positionInfo == positionCall.result
      depositOwner == IF depositCall.result # None THEN Some(depositCall.result[1][1]) ELSE None
  IN IF incompleteOf(owner, positionInfo, depositOwner) THEN None
     ELSE LET info == positionInfo[1]
              depositedInStaker == depositedInStakerOf(depositOwner)
              poolKey == [token0 |-> Str(info.token0), token1 |-> Str(info.token1), fee |-> info.fee]
              key == toPoolKey(poolKey)
          IN Some([token0 |-> info.token0, token1 |-> info.token1, fee |-> info.fee,
                   tokenId |-> tokenId,
                   owner |-> IF depositedInStaker THEN depositOwner[1] ELSE owner[1],
                   depositedInStaker |-> depositedInStaker,
                   feeGrowthInside0LastX128 |-> info.feeGrowthInside0LastX128,
                   feeGrowthInside1LastX128 |-> info.feeGrowthInside1LastX128,
                   liquidity |-> info.liquidity,
                   nonce |-> info.nonce,
                   operator |-> info.operator,
                   tickLower |-> info.tickLower,
                   tickUpper |-> info.tickUpper,
                   tokensOwed0 |-> info.tokensOwed0,
                   tokensOwed1 |-> info.tokensOwed1,
                   incentives |-> IF key \in DOMAIN byPoolKey THEN byPoolKey[key] ELSE <<>>])

RECURSIVE Compact(_)
Compact(s) ==
  IF s = <<>> THEN <<>>
  ELSE (IF Head(s) # None THEN <<Head(s)[1]>> ELSE <<>>) \o Compact(Tail(s))

positionsOf_IgnoresError(loading, error, tokenIds, tokenIdOwners, positionInfos, depositOwners, byPoolKey) ==
  IF ~loading /\ tokenIds # None
  THEN Some(Compact([i \in DOMAIN tokenIds[1] |->
              positionOf(tokenIds[1][i], tokenIdOwners[i], positionInfos[i],
                         depositOwners[i], byPoolKey)]))
  ELSE None

positionsOf_IgnoresLoading(loading, error, tokenIds, tokenIdOwners, positionInfos, depositOwners, byPoolKey) ==
  IF ~error /\ tokenIds # None
  THEN Some(Compact([i \in DOMAIN tokenIds[1] |->
              positionOf(tokenIds[1][i], tokenIdOwners[i], positionInfos[i],
                         depositOwners[i], byPoolKey)]))
  ELSE None

positionsOf(loading, error, tokenIds, tokenIdOwners, positionInfos, depositOwners, byPoolKey) ==
  IF ~loading /\ ~error /\ tokenIds # None
  THEN Some(Compact([i \in DOMAIN tokenIds[1] |->
              positionOf(tokenIds[1][i], tokenIdOwners[i], positionInfos[i],
                         depositOwners[i], byPoolKey)]))
  ELSE None

useV3PositionsFromTokenIds(tokenIds, pc, oc, dc, incentives, incentivesLoading) ==
  LET positionInfos == useSingleContractMultipleData(pc, inputs(tokenIds))
      tokenIdOwners == useSingleContractMultipleData(oc, inputs(tokenIds))
      depositOwners == useSingleContractMultipleData(dc, inputs(tokenIds))
      states == <<positionInfos, tokenIdOwners, depositOwners>>
      loading == loadingOf(incentivesLoading, states)
      error == errorOf(states)
  IN [tokenIds |-> tokenIds,
      loading |-> loading,
      error |-> error,
      positions |-> positionsOf(loading, error, tokenIds, tokenIdOwners, positionInfos,
                                depositOwners, incentivesByPoolKey(incentives))]

\* ------------------------------------------------------------------------
\* useV3Positions
\* ------------------------------------------------------------------------
\* id.toString(): the decimal digits of a token id, most significant first.
RECURSIVE toString(_)
toString(n) == IF n < 10 THEN <<n>> ELSE toString(n \div 10) \o <<n % 10>>

\* BigNumber.from(digits)
RECURSIVE BigNumberFrom(_)
BigNumberFrom(digits) ==
  IF Len(digits) = 1 THEN digits[1]
  ELSE 10 * BigNumberFrom(SubSeq(digits, 1, Len(digits) - 1)) + digits[Len(digits)]

\* balanceResult?.[0]?.toNumber()
accountBalanceOf(balanceCall) ==
  IF balanceCall.result # None THEN Some(balanceCall.result[1][1]) ELSE None

tokenIdsArgsOf(account, accountBalance) ==
  IF accountBalance # None /\ accountBalance[1] # 0 /\ account # None
  THEN [i \in 1..accountBalance[1] |-> <<account[1], i - 1>>]
  ELSE <<>>

someTokenIdsLoadingOf(depositedTokenIdsState, tokenIdResults) ==
  depositedTokenIdsState = "LOADING" \/ someLoading(tokenIdResults)

tokenIdsOf_Deduplicated(account, depositedTokenIds, tokenIdResults) ==
  IF account # None
  THEN LET results == SelectSeq([i \in DOMAIN tokenIdResults |-> tokenIdResults[i].result],
                                LAMBDA result : result # None)
           enumerated == [i \in DOMAIN results |-> results[i][1][1]]
           staked == IF depositedTokenIds # None
                     THEN [i \in DOMAIN depositedTokenIds[1] |->
                             BigNumberFrom(toString(depositedTokenIds[1][i]))]
                     ELSE <<>>
       IN enumerated \o SelectSeq(staked, LAMBDA id : id \notin Range(enumerated))
  ELSE <<>>

tokenIdsOf(account, depositedTokenIds, tokenIdResults) ==
  IF account # None
  THEN LET results == SelectSeq([i \in DOMAIN tokenIdResults |-> tokenIdResults[i].result],
                                LAMBDA result : result # None)
           enumerated == [i \in DOMAIN results |-> results[i][1][1]]
           staked == IF depositedTokenIds # None
                     THEN [i \in DOMAIN depositedTokenIds[1] |->
                             BigNumberFrom(toString(depositedTokenIds[1][i]))]
                     ELSE <<>>
       IN enumerated \o staked
  ELSE <<>>

useV3Positions(acc, bal, tic, dep, pc, oc, dc, inc) ==
  LET accountBalance == accountBalanceOf(bal)
      tokenIdsArgs == tokenIdsArgsOf(acc, accountBalance)
      tokenIdResults == useSingleContractMultipleData(tic, tokenIdsArgs)
      someTokenIdsLoading == someTokenIdsLoadingOf(dep.state, tokenIdResults)
      tokenIds == tokenIdsOf(acc, dep.tokenIds, tokenIdResults)
      fromTokenIds == useV3PositionsFromTokenIds(Some(tokenIds), pc, oc, dc,
                                                 inc.incentives, inc.loading)
  IN [tokenIdsArgs |-> tokenIdsArgs,
      tokenIds |-> tokenIds,
      fromTokenIds |-> fromTokenIds,
      loading |-> someTokenIdsLoading \/ bal.loading \/ fromTokenIds.loading,
      error |-> fromTokenIds.error,
      positions |-> fromTokenIds.positions]

\* ------------------------------------------------------------------------
\* useV3PositionsForPool
\* ------------------------------------------------------------------------
relevantOf(p, pool) ==
  p.token0 = pool.token0.address /\ p.token1 = pool.token1.address /\ p.fee = pool.fee

belowOf(p, pool) ==
  IF p.tickLower # None THEN Some(pool.tickCurrent < p.tickLower[1]) ELSE None

aboveOf_Exclusive(p, pool) ==
  IF p.tickUpper # None THEN Some(pool.tickCurrent > p.tickUpper[1]) ELSE None

aboveOf(p, pool) ==
  IF p.tickUpper # None THEN Some(pool.tickCurrent >= p.tickUpper[1]) ELSE None

\* typeof below === 'boolean' && typeof above === 'boolean' ? !below && !above : false
withinRange(p, pool) ==
  LET below == belowOf(p, pool)
      above == aboveOf(p, pool)
  IN IF below # None /\ above # None THEN ~below[1] /\ ~above[1] ELSE FALSE

inRangeFilter(p, pool) == withinRange(p, pool)

outOfRangeFilter_NumericOnly(p, pool) ==
  belowOf(p, pool) # None /\ aboveOf(p, pool) # None /\ ~withinRange(p, pool)

outOfRangeFilter(p, pool) == ~withinRange(p, pool)

skipsClassification_WhenLoading(positions, pool, positionsLoading) ==
  positions = None \/ pool = None \/ positionsLoading

skipsClassification(positions, pool, positionsLoading) ==
  positions = None \/ pool = None \/ ~positionsLoading

useV3PositionsForPool(positionsOfAccount, pl) ==
  IF skipsClassification(positionsOfAccount.positions, pl, positionsOfAccount.loading)
  THEN [loading |-> FALSE, inRangePositions |-> None, outOfRangePositions |-> None]
  ELSE LET relevantPositions == SelectSeq(positionsOfAccount.positions[1], LAMBDA p : relevantOf(p, pl[1]))
       IN [loading |-> FALSE,
           inRangePositions |->
             Some(SelectSeq(relevantPositions, LAMBDA p : inRangeFilter(p, pl[1]))),
           outOfRangePositions |->
             Some(SelectSeq(relevantPositions, LAMBDA p : outOfRangeFilter(p, pl[1])))]

\* ------------------------------------------------------------------------
\* State
\* ------------------------------------------------------------------------
VARIABLES
  positionCache,    \* call cache of positionManager.positions, keyed by call arguments
  ownerCache,       \* call cache of positionManager.ownerOf
  depositCache,     \* call cache of staker.deposits
  incentivesState,  \* what useAllIncentives returns: [incentives, loading]
  fromIds,          \* what useV3PositionsFromTokenIds returned in the last pass
  final,            \* the outcome each call of a fixed batch resolves to
  account,          \* the account handed to useV3Positions
  pool,             \* the pool handed to useV3PositionsForPool
  balanceCall,      \* cached call state of positionManager.balanceOf(account)
  tokenIdCache,     \* call cache of positionManager.tokenOfOwnerByIndex
  deposited,        \* what useDepositedTokenIds returns: [state, tokenIds]
  byAccount,        \* what useV3Positions returned in the last pass
  forPool           \* what useV3PositionsForPool returned in the last pass

vars == <<positionCache, ownerCache, depositCache, incentivesState, fromIds, final,
          account, pool, balanceCall, tokenIdCache, deposited, byAccount, forPool>>

CallKeys == {<<id>> : id \in TokenIdSet}

\* Sequences over S of length at most n.
SeqUpTo(S, n) == UNION {[1..k -> S] : k \in 0..n}
Injective(s) == \A i, j \in DOMAIN s : s[i] = s[j] => i = j

TokenIdLists == SeqUpTo(TokenIdSet, MaxTokenIds)

PositionInfos == {PositionInfo(TokenA, TokenB, 500, Some(100), Some(200))}
Owners == {Account}
DepositOwners == {AddressZero, Staker}

PositionStates == {LOADING_CALL_STATE, INVALID_CALL_STATE, ERROR_CALL_STATE}
                    \cup {Resolved(r) : r \in PositionInfos}
OwnerStates == {LOADING_CALL_STATE, INVALID_CALL_STATE, ERROR_CALL_STATE}
                 \cup {Resolved(<<a>>) : a \in Owners}
DepositStates == {LOADING_CALL_STATE, INVALID_CALL_STATE, ERROR_CALL_STATE}
                   \cup {Resolved(<<a>>) : a \in DepositOwners}

IncentiveSet == {Incentive(1, TokenA, TokenB, 500),
                 Incentive(2, TokenA, TokenB, 500),
                 Incentive(3, TokenA, TokenB, 3000)}
IncentiveLists == {l \in SeqUpTo(IncentiveSet, MaxIncentives) : Injective(l)}
IncentiveStates == {[incentives |-> None, loading |-> TRUE], [incentives |-> None, loading |-> FALSE]}
                     \cup {[incentives |-> Some(l), loading |-> FALSE] : l \in IncentiveLists}

\* The states of the incentive fetch that differ in what the flags see.
IncentiveFlagStates ==
  {[incentives |-> None, loading |-> TRUE], [incentives |-> None, loading |-> FALSE],
   [incentives |-> Some(<<Incentive(1, TokenA, TokenB, 500)>>), loading |-> FALSE]}

NoFinal == [kind |-> "none"]

\* One render pass of useV3PositionsFromTokenIds over the given caches.
RenderFromIds(tokenIds, pc, oc, dc, inc) ==
  useV3PositionsFromTokenIds(tokenIds, pc, oc, dc, inc.incentives, inc.loading)

NotMounted == [mounted |-> FALSE]

Requested(id) == <<id>> \in Range(inputs(fromIds.tokenIds))

\* One render pass of useV3PositionsForPool, which runs useV3Positions, which
\* runs useV3PositionsFromTokenIds.
RenderForPool(acc, pl, bal, tic, dep, pc, oc, dc, inc) ==
  LET positionsOfAccount == useV3Positions(acc, bal, tic, dep, pc, oc, dc, inc)
  IN [fromIds |-> positionsOfAccount.fromTokenIds,
      byAccount |-> [tokenIdsArgs |-> positionsOfAccount.tokenIdsArgs,
                     tokenIds |-> positionsOfAccount.tokenIds,
                     loading |-> positionsOfAccount.loading,
                     error |-> positionsOfAccount.error,
                     positions |-> positionsOfAccount.positions],
      forPool |-> useV3PositionsForPool(positionsOfAccount, pl)]

\* The render pass that follows a change of the caches: of the mounted hook.
Rerender ==
  IF byAccount = NotMounted
  THEN /\ fromIds' = RenderFromIds(fromIds.tokenIds, positionCache', ownerCache',
                                   depositCache', incentivesState')
       /\ UNCHANGED <<byAccount, forPool>>
  ELSE \E pass \in {RenderForPool(account', pool', balanceCall', tokenIdCache', deposited',
                                   positionCache', ownerCache', depositCache', incentivesState')} :
         /\ fromIds' = pass.fromIds
         /\ byAccount' = pass.byAccount
         /\ forPool' = pass.forPool

IndexKeys == {<<Account, i>> : i \in 0..(MaxBalance - 1)}

\* useV3Positions and useV3PositionsForPool are not mounted.
NoAccountHooks ==
  /\ account = None
  /\ pool = None
  /\ balanceCall = INVALID_CALL_STATE
  /\ tokenIdCache = [k \in IndexKeys |-> LOADING_CALL_STATE]
  /\ deposited = [state |-> "LOADING", tokenIds |-> None]
  /\ byAccount = NotMounted
  /\ forPool = NotMounted

InitCaches ==
  /\ positionCache = [k \in CallKeys |-> LOADING_CALL_STATE]
  /\ ownerCache = [k \in CallKeys |-> LOADING_CALL_STATE]
  /\ depositCache = [k \in CallKeys |-> LOADING_CALL_STATE]
  /\ incentivesState = [incentives |-> None, loading |-> TRUE]

Init ==
  /\ InitCaches
  /\ NoAccountHooks
  /\ final = NoFinal
  /\ \E tokenIds \in {None} \cup {Some(l) : l \in TokenIdLists} :
       fromIds = RenderFromIds(tokenIds, positionCache, ownerCache, depositCache, incentivesState)

PositionCallUpdate(states) ==
  \E id \in TokenIdSet, st \in states \ {LOADING_CALL_STATE} :
    /\ Requested(id)
    /\ positionCache' = [positionCache EXCEPT ![<<id>>] = st]
    /\ UNCHANGED <<ownerCache, depositCache, incentivesState, final, account, pool, balanceCall, tokenIdCache, deposited>>
    /\ Rerender

OwnerCallUpdate(states) ==
  \E id \in TokenIdSet, st \in states \ {LOADING_CALL_STATE} :
    /\ Requested(id)
    /\ ownerCache' = [ownerCache EXCEPT ![<<id>>] = st]
    /\ UNCHANGED <<positionCache, depositCache, incentivesState, final, account, pool, balanceCall, tokenIdCache, deposited>>
    /\ Rerender

DepositCallUpdate(states) ==
  \E id \in TokenIdSet, st \in states \ {LOADING_CALL_STATE} :
    /\ Requested(id)
    /\ depositCache' = [depositCache EXCEPT ![<<id>>] = st]
    /\ UNCHANGED <<positionCache, ownerCache, incentivesState, final, account, pool, balanceCall, tokenIdCache, deposited>>
    /\ Rerender

IncentivesUpdate(states) ==
  \E st \in states :
    /\ incentivesState' = st
    /\ UNCHANGED <<positionCache, ownerCache, depositCache, final, account, pool, balanceCall, tokenIdCache, deposited>>
    /\ Rerender

Next ==
  \/ PositionCallUpdate(PositionStates)
  \/ OwnerCallUpdate(OwnerStates)
  \/ DepositCallUpdate(DepositStates)
  \/ IncentivesUpdate(IncentiveFlagStates)

Spec == Init /\ [][Next]_vars

\* ------------------------------------------------------------------------
\* useV3PositionsFromTokenIds over every incentive list
\* ------------------------------------------------------------------------
PoolPositionStates ==
  {LOADING_CALL_STATE,
   Resolved(PositionInfo(TokenA, TokenB, 500, Some(100), Some(200))),
   Resolved(PositionInfo(TokenA, TokenB, 3000, Some(100), Some(200))),
   Resolved(PositionInfo(TokenB, TokenA, 500, Some(100), Some(200)))}

\* The ownerOf and deposits calls of every token id are already cached (the
\* call cache is shared by all mounted hooks); the other calls are not.
InitIncentives ==
  /\ positionCache = [k \in CallKeys |-> LOADING_CALL_STATE]
  /\ ownerCache = [k \in CallKeys |-> Resolved(<<Account>>)]
  /\ depositCache = [k \in CallKeys |-> Resolved(<<AddressZero>>)]
  /\ incentivesState = [incentives |-> None, loading |-> TRUE]
  /\ NoAccountHooks
  /\ final = NoFinal
  /\ \E l \in TokenIdLists :
       fromIds = RenderFromIds(Some(l), positionCache, ownerCache, depositCache, incentivesState)

NextIncentives ==
  \/ PositionCallUpdate(PoolPositionStates)
  \/ IncentivesUpdate(IncentiveStates)

SpecIncentives == InitIncentives /\ [][NextIncentives]_vars

\* ------------------------------------------------------------------------
\* Properties of useV3PositionsFromTokenIds
\* ------------------------------------------------------------------------
RequestedIds == IF fromIds.tokenIds # None THEN Range(fromIds.tokenIds[1]) ELSE {}
HasOwner(id) == ownerCache[<<id>>].result # None
HasPosition(id) == positionCache[<<id>>].result # None
HasDeposit(id) == depositCache[<<id>>].result # None

\* C1: whenever the aggregate loading flag or the aggregate error flag is
\* true the returned positions value is undefined; a list is returned only
\* when loading is false, error is false and tokenIds is defined.
C1_NoPartialResults ==
  /\ (fromIds.loading \/ fromIds.error) => fromIds.positions = None
  /\ fromIds.positions # None =>
       ~fromIds.loading /\ ~fromIds.error /\ fromIds.tokenIds # None

\* A pass with an errored call in which another token id has all its results:
\* a partial list could have been built.
C1_Witness ==
  /\ fromIds.error /\ ~fromIds.loading
  /\ \E id \in RequestedIds : HasOwner(id) /\ HasPosition(id)

\* C2: loading is true exactly when the incentive fetch is loading or some
\* call of the positions, ownerOf or deposits batch is loading; error is true
\* exactly when some call of one of the three batches has errored.
C2_AggregateFlags ==
  /\ fromIds.loading <=>
       \/ incentivesState.loading
       \/ \E id \in RequestedIds : \/ positionCache[<<id>>].loading
                                   \/ ownerCache[<<id>>].loading
                                   \/ depositCache[<<id>>].loading
  /\ fromIds.error <=>
       \E id \in RequestedIds : \/ positionCache[<<id>>].error
                                \/ ownerCache[<<id>>].error
                                \/ depositCache[<<id>>].error

\* Only the incentive fetch is still loading, and only the deposits batch has
\* an errored call.
C2_Witness ==
  /\ fromIds.loading /\ fromIds.error
  /\ incentivesState.loading
  /\ \A id \in RequestedIds : /\ ~positionCache[<<id>>].loading /\ ~positionCache[<<id>>].error
                              /\ ~ownerCache[<<id>>].loading /\ ~ownerCache[<<id>>].error
                              /\ ~depositCache[<<id>>].loading
  /\ \E id \in RequestedIds : depositCache[<<id>>].error

TokenIdsOf(list) == [i \in DOMAIN list |-> list[i].tokenId]

\* C3: when a list is produced it holds, in the order of tokenIds, exactly
\* the token ids that have both an ownerOf result and a position-details
\* result; the others are dropped, and the error flag stays false.
C3_DropsIncomplete ==
  fromIds.positions # None =>
    /\ TokenIdsOf(fromIds.positions[1]) =
         SelectSeq(fromIds.tokenIds[1], LAMBDA id : HasOwner(id) /\ HasPosition(id))
    /\ ~fromIds.error

\* A list out of two different token ids, one kept and one dropped.
C3_Witness ==
  /\ fromIds.positions # None
  /\ Len(fromIds.positions[1]) = 1
  /\ \E id \in RequestedIds : ~(HasOwner(id) /\ HasPosition(id))
  /\ \E id \in RequestedIds : HasOwner(id) /\ HasPosition(id) /\ ~HasDeposit(id)

StakedBy(id) ==
  HasDeposit(id) /\ depositCache[<<id>>].result[1][1] # AddressZero

\* C4: a produced position is owned by the staking-deposit owner, with
\* depositedInStaker true, when that owner exists and is not the zero
\* address; otherwise by the ownerOf result, with depositedInStaker false.
C4_OwnerResolution ==
  fromIds.positions # None =>
    \A i \in DOMAIN fromIds.positions[1] :
      LET p == fromIds.positions[1][i]
      IN IF StakedBy(p.tokenId)
         THEN p.owner = depositCache[<<p.tokenId>>].result[1][1] /\ p.depositedInStaker
         ELSE p.owner = ownerCache[<<p.tokenId>>].result[1][1] /\ ~p.depositedInStaker

\* A list with a staked position and one whose deposit owner is the zero address.
C4_Witness ==
  /\ fromIds.positions # None
  /\ \E i, j \in DOMAIN fromIds.positions[1] :
       /\ StakedBy(fromIds.positions[1][i].tokenId)
       /\ HasDeposit(fromIds.positions[1][j].tokenId)
       /\ ~StakedBy(fromIds.positions[1][j].tokenId)

SourceIncentives == IF incentivesState.incentives # None THEN incentivesState.incentives[1] ELSE <<>>

SamePool(incentive, p) ==
  /\ incentive.pool.token0.address = p.token0
  /\ incentive.pool.token1.address = p.token1
  /\ incentive.pool.fee = p.fee

\* C5: the incentives of a produced position are the incentives of the source
\* list whose pool has the position's (token0, token1, fee), in source order.
C5_IncentiveAttachment ==
  fromIds.positions # None =>
    \A i \in DOMAIN fromIds.positions[1] :
      LET p == fromIds.positions[1][i]
      IN p.incentives = SelectSeq(SourceIncentives, LAMBDA incentive : SamePool(incentive, p))

\* A position that received some but not all of the source incentives.
C5_Witness ==
  /\ fromIds.positions # None
  /\ \E i \in DOMAIN fromIds.positions[1] :
       /\ fromIds.positions[1][i].incentives # <<>>
       /\ Len(fromIds.positions[1][i].incentives) < Len(SourceIncentives)

\* ------------------------------------------------------------------------
\* A fixed batch whose calls resolve in any order
\* ------------------------------------------------------------------------
\* The outcomes the calls of the batch can resolve to.
FinalPositionStates == {INVALID_CALL_STATE, ERROR_CALL_STATE} \cup {Resolved(r) : r \in PositionInfos}
FinalOwnerStates == {INVALID_CALL_STATE} \cup {Resolved(<<a>>) : a \in Owners}
FinalDepositStates == {Resolved(<<a>>) : a \in DepositOwners}
FinalIncentiveStates ==
  {[incentives |-> None, loading |-> FALSE],
   [incentives |-> Some(<<Incentive(1, TokenA, TokenB, 500), Incentive(3, TokenA, TokenB, 3000)>>),
    loading |-> FALSE]}

\* Each call of the batch has one outcome, fixed before any call resolves;
\* calls that are not part of the batch never resolve.
InitOrder ==
  /\ InitCaches
  /\ NoAccountHooks
  /\ \E l \in TokenIdLists :
       /\ fromIds = RenderFromIds(Some(l), positionCache, ownerCache, depositCache, incentivesState)
       /\ \E pf \in [CallKeys -> FinalPositionStates], of \in [CallKeys -> FinalOwnerStates],
             df \in [CallKeys -> FinalDepositStates], inf \in FinalIncentiveStates :
            /\ \A k \in CallKeys \ Range(inputs(Some(l))) :
                 /\ pf[k] = INVALID_CALL_STATE
                 /\ of[k] = INVALID_CALL_STATE
                 /\ df[k] = Resolved(<<AddressZero>>)
            /\ final = [kind |-> "batch", position |-> pf, owner |-> of, deposit |-> df,
                        incentives |-> inf]

PositionCallResolves ==
  \E id \in TokenIdSet :
    /\ Requested(id)
    /\ positionCache[<<id>>].loading
    /\ positionCache' = [positionCache EXCEPT ![<<id>>] = final.position[<<id>>]]
    /\ UNCHANGED <<ownerCache, depositCache, incentivesState, final, account, pool, balanceCall, tokenIdCache, deposited>>
    /\ Rerender

OwnerCallResolves ==
  \E id \in TokenIdSet :
    /\ Requested(id)
    /\ ownerCache[<<id>>].loading
    /\ ownerCache' = [ownerCache EXCEPT ![<<id>>] = final.owner[<<id>>]]
    /\ UNCHANGED <<positionCache, depositCache, incentivesState, final, account, pool, balanceCall, tokenIdCache, deposited>>
    /\ Rerender

DepositCallResolves ==
  \E id \in TokenIdSet :
    /\ Requested(id)
    /\ depositCache[<<id>>].loading
    /\ depositCache' = [depositCache EXCEPT ![<<id>>] = final.deposit[<<id>>]]
    /\ UNCHANGED <<positionCache, ownerCache, incentivesState, final, account, pool, balanceCall, tokenIdCache, deposited>>
    /\ Rerender

IncentivesResolve ==
  /\ incentivesState.loading
  /\ incentivesState' = final.incentives
  /\ UNCHANGED <<positionCache, ownerCache, depositCache, final, account, pool, balanceCall, tokenIdCache, deposited>>
  /\ Rerender

NextOrder == PositionCallResolves \/ OwnerCallResolves \/ DepositCallResolves \/ IncentivesResolve

SpecOrder == InitOrder /\ [][NextOrder]_vars

AllResolved ==
  /\ ~incentivesState.loading
  /\ \A id \in RequestedIds : /\ ~positionCache[<<id>>].loading
                              /\ ~ownerCache[<<id>>].loading
                              /\ ~depositCache[<<id>>].loading

FinalError == \E id \in RequestedIds : final.position[<<id>>].error

\* The join of the final outcomes of the batch.
FinalPositions ==
  LET ids == fromIds.tokenIds[1]
  IN Compact([i \in DOMAIN ids |->
        positionOf(ids[i], final.owner[<<ids[i]>>], final.position[<<ids[i]>>],
                   final.deposit[<<ids[i]>>], incentivesByPoolKey(final.incentives.incentives))])

\* C10: for a fixed tokenIds input and whatever the order in which the calls
\* and the incentive fetch resolve, positions is undefined in every pass
\* before all of them have resolved, and once all have resolved without error
\* the list is the join of the final per-call results.
C10_OrderIndependent ==
  /\ ~AllResolved => fromIds.positions = None
  /\ (AllResolved /\ ~FinalError) => fromIds.positions = Some(FinalPositions)

\* Every call of a two-id batch has resolved, and both positions are listed.
C10_Witness ==
  /\ AllResolved /\ ~FinalError
  /\ Cardinality(RequestedIds) = 2
  /\ fromIds.positions # None
  /\ Len(fromIds.positions[1]) = 2

\* ------------------------------------------------------------------------
\* useV3PositionsForPool mounted for an account and a pool
\* ------------------------------------------------------------------------
Pool(t0, t1, f, tick) == [token0 |-> Token(t0), token1 |-> Token(t1), fee |-> f, tickCurrent |-> tick]

PoolTicks == {99, 100, 150, 200}
Pools == {Pool(TokenA, TokenB, 500, t) : t \in PoolTicks}

AccountPositionStates ==
  {LOADING_CALL_STATE,
   Resolved(PositionInfo(TokenA, TokenB, 500, Some(100), Some(200))),
   Resolved(PositionInfo(TokenA, TokenB, 500, None, Some(200))),
   Resolved(PositionInfo(TokenA, TokenB, 3000, Some(100), Some(200)))}

BalanceStates == {Resolved(<<n>>) : n \in 0..MaxBalance}
TokenIdStates == {Resolved(<<id>>) : id \in TokenIdSet}
DepositedStates ==
  {[state |-> "LOADING", tokenIds |-> None]}
    \cup {[state |-> "LOADED", tokenIds |-> Some(l)] : l \in SeqUpTo(TokenIdSet, MaxDeposited)}

\* The incentive list and the ownerOf and deposits calls of every token id
\* are already cached (the caches are shared by all mounted hooks); the other
\* calls are not.
InitAccount ==
  /\ positionCache = [k \in CallKeys |-> LOADING_CALL_STATE]
  /\ ownerCache = [k \in CallKeys |-> Resolved(<<Account>>)]
  /\ depositCache = [k \in CallKeys |-> Resolved(<<AddressZero>>)]
  /\ incentivesState = [incentives |-> Some(<<Incentive(1, TokenA, TokenB, 500)>>),
                        loading |-> FALSE]
  /\ final = NoFinal
  /\ account \in {None, Some(Account)}
  /\ pool \in {None} \cup {Some(pl) : pl \in Pools}
  /\ balanceCall = IF account = None THEN INVALID_CALL_STATE ELSE LOADING_CALL_STATE
  /\ tokenIdCache = [k \in IndexKeys |-> LOADING_CALL_STATE]
  /\ deposited = [state |-> "LOADING", tokenIds |-> None]
  /\ LET pass == RenderForPool(account, pool, balanceCall, tokenIdCache, deposited,
                               positionCache, ownerCache, depositCache, incentivesState)
     IN /\ fromIds = pass.fromIds
        /\ byAccount = pass.byAccount
        /\ forPool = pass.forPool

BalanceCallUpdate ==
  \E st \in BalanceStates :
    /\ account # None
    /\ balanceCall' = st
    /\ UNCHANGED <<positionCache, ownerCache, depositCache, incentivesState, final,
                   account, pool, tokenIdCache, deposited>>
    /\ Rerender

TokenIdCallUpdate ==
  \E k \in IndexKeys, st \in TokenIdStates :
    /\ k \in Range(byAccount.tokenIdsArgs)
    /\ tokenIdCache' = [tokenIdCache EXCEPT ![k] = st]
    /\ UNCHANGED <<positionCache, ownerCache, depositCache, incentivesState, final,
                   account, pool, balanceCall, deposited>>
    /\ Rerender

DepositedTokenIdsUpdate ==
  \E st \in DepositedStates :
    /\ deposited' = st
    /\ UNCHANGED <<positionCache, ownerCache, depositCache, incentivesState, final,
                   account, pool, balanceCall, tokenIdCache>>
    /\ Rerender

NextAccount ==
  \/ BalanceCallUpdate
  \/ TokenIdCallUpdate
  \/ DepositedTokenIdsUpdate
  \/ PositionCallUpdate(AccountPositionStates)

SpecAccount == InitAccount /\ [][NextAccount]_vars

\* ------------------------------------------------------------------------
\* Properties of useV3Positions and useV3PositionsForPool
\* ------------------------------------------------------------------------
\* The indices whose tokenOfOwnerByIndex call was requested and has a result,
\* in increasing order.
RECURSIVE ResolvedIndices(_)
ResolvedIndices(n) ==
  IF n = 0 THEN <<>>
  ELSE ResolvedIndices(n - 1) \o
         (IF tokenIdCache[<<Account, n - 1>>].result # None THEN <<n - 1>> ELSE <<>>)

ReportedBalance == IF balanceCall.result # None THEN balanceCall.result[1][1] ELSE 0

\* C6: for an account with reported balance n, tokenOfOwnerByIndex is
\* requested for the indices 0..n-1 and no other (none without an account or
\* with a zero or unknown balance), and tokenIds is the results of those calls
\* in index order, calls without a result skipped, followed by the deposited
\* token ids, duplicates kept.
C6_TokenIdResolution ==
  LET n == IF account # None THEN ReportedBalance ELSE 0
      indices == ResolvedIndices(n)
      staked == IF deposited.tokenIds # None THEN deposited.tokenIds[1] ELSE <<>>
  IN /\ Len(byAccount.tokenIdsArgs) = n
     /\ \A i \in DOMAIN byAccount.tokenIdsArgs : byAccount.tokenIdsArgs[i] = <<Account, i - 1>>
     /\ account # None =>
          byAccount.tokenIds =
            [j \in DOMAIN indices |-> tokenIdCache[<<Account, indices[j]>>].result[1][1]] \o staked
     /\ account = None => byAccount.tokenIds = <<>>

\* Balance 2, index 0 still loading, index 1 resolved to a token id that is
\* also deposited in the staker: the id is listed twice.
C6_Witness ==
  /\ Len(byAccount.tokenIdsArgs) = 2
  /\ tokenIdCache[<<Account, 0>>].result = None
  /\ Len(byAccount.tokenIds) = 2
  /\ byAccount.tokenIds[1] = 12
  /\ byAccount.tokenIds[2] = 12

Classified == forPool.inRangePositions # None /\ forPool.outOfRangePositions # None

InPool(p) ==
  /\ p.token0 = pool[1].token0.address
  /\ p.token1 = pool[1].token1.address
  /\ p.fee = pool[1].fee

Numeric(p) == p.tickLower # None /\ p.tickUpper # None

Within(p) == p.tickLower[1] <= pool[1].tickCurrent /\ pool[1].tickCurrent < p.tickUpper[1]

\* C7: when a classification is produced only positions of the target pool
\* are classified; those with numeric bounds are in inRangePositions exactly
\* when tickLower <= tickCurrent < tickUpper and in outOfRangePositions
\* otherwise.
C7_RangeClassification ==
  Classified =>
    LET ps == byAccount.positions[1]
    IN /\ forPool.inRangePositions[1] =
            SelectSeq(ps, LAMBDA p : InPool(p) /\ Numeric(p) /\ Within(p))
       /\ SelectSeq(forPool.outOfRangePositions[1], Numeric) =
            SelectSeq(ps, LAMBDA p : InPool(p) /\ Numeric(p) /\ ~Within(p))
       /\ \A p \in Range(forPool.inRangePositions[1]) \cup Range(forPool.outOfRangePositions[1]) :
            InPool(p)

\* The current tick equals the upper bound of a position of the pool, which
\* is out of range, and a position of another pool is left out.
C7_Witness ==
  /\ Classified
  /\ \E p \in Range(forPool.outOfRangePositions[1]) :
       Numeric(p) /\ p.tickUpper[1] = pool[1].tickCurrent
  /\ \E p \in Range(byAccount.positions[1]) : ~InPool(p)

\* C8 as stated: a position of the pool with a bound that is not numeric is
\* in neither bucket.
C8_ExcludedFromBoth ==
  Classified =>
    \A p \in Range(byAccount.positions[1]) :
      (InPool(p) /\ ~Numeric(p)) =>
        /\ p \notin Range(forPool.inRangePositions[1])
        /\ p \notin Range(forPool.outOfRangePositions[1])

\* C8, amended: a position of the pool with a bound that is not numeric is
\* not in inRangePositions and is in outOfRangePositions.
C8_NonNumericOutOfRange ==
  Classified =>
    \A p \in Range(byAccount.positions[1]) :
      (InPool(p) /\ ~Numeric(p)) =>
        /\ p \notin Range(forPool.inRangePositions[1])
        /\ p \in Range(forPool.outOfRangePositions[1])

\* A classification over a position of the pool without a numeric tickLower.
C8_Witness ==
  /\ Classified
  /\ \E p \in Range(byAccount.positions[1]) : InPool(p) /\ ~Numeric(p)

\* C9: when useV3Positions reports loading = false both buckets are
\* undefined; a classification is returned only when positions is defined, a
\* pool is given and useV3Positions reports loading = true; the hook itself
\* always reports loading = false.
C9_ClassifiesOnlyWhileLoading ==
  /\ ~byAccount.loading =>
       forPool.inRangePositions = None /\ forPool.outOfRangePositions = None
  /\ (forPool.inRangePositions # None \/ forPool.outOfRangePositions # None) =>
       byAccount.positions # None /\ pool # None /\ byAccount.loading
  /\ forPool.loading = FALSE

\* Loading has finished with a position of the given pool, and nothing is
\* classified.
C9_Witness ==
  /\ ~byAccount.loading
  /\ pool # None
  /\ byAccount.positions # None
  /\ \E p \in Range(byAccount.positions[1]) : InPool(p)
  /\ forPool.inRangePositions = None

====
